---- MODULE Spec2Model ----
(***************************************************************************)
(* GraphOperations (hydra_agent/redis_core/graphutils_operations.py): the  *)
(* handlers that replay GET / PUT / POST / DELETE on the Redis graph, the  *)
(* cache lookup get_resource and link_resources.                           *)
(*                                                                         *)
(* Python strings that the code splits, strips, replaces or searches       *)
(* (URLs, ids, endpoint and type names) are sequences of one-character     *)
(* strings, so that split, rstrip, replace and the substring test are      *)
(* computed as Python computes them.  Property names and property values   *)
(* are only compared or converted with str(), and are TLA+ strings.        *)
(***************************************************************************)
EXTENDS Integers, Sequences, FiniteSets, TLC

\* coll:  the collection nodes (label "collection"), in store order
\* nodes: the resource nodes (label "objects"+type), in store order
\* pending: the nodes add_node has handed to GraphUtils and no flush has
\*        committed yet
\* edges: the edges, in the order of their creation
\* last:  the last call: its name, its arguments and how it ended
\* procs: the calls in flight when two callers use the handlers at once: the
\*        position of each in its handler and what it holds in local variables
VARIABLES coll, nodes, pending, edges, last, procs

vars == <<coll, nodes, pending, edges, last, procs>>

----------------------------------------------------------------------------
(* Python str operations                                                   *)

SLASH == "/"

RECURSIVE RStrip(_)
\* str.rstrip('/'): every trailing slash is removed
RStrip(s) ==
    IF s # <<>> /\ s[Len(s)] = SLASH THEN RStrip(SubSeq(s, 1, Len(s) - 1)) ELSE s

StartsWith(s, p) == Len(p) <= Len(s) /\ SubSeq(s, 1, Len(p)) = p

RECURSIVE Replace(_, _, _)
\* str.replace(old, new): every non-overlapping occurrence, left to right
Replace(s, old, new) ==
    IF s = <<>> THEN <<>>
    ELSE IF StartsWith(s, old)
         THEN new \o Replace(SubSeq(s, Len(old) + 1, Len(s)), old, new)
         ELSE <<Head(s)>> \o Replace(Tail(s), old, new)

RECURSIVE SplitFrom(_, _, _)
\* the segments of s after the segment cur has been started; maxsplit < 0 is no limit
SplitFrom(s, cur, maxsplit) ==
    IF maxsplit = 0 THEN << cur \o s >>
    ELSE IF s = <<>> THEN << cur >>
    ELSE IF Head(s) = SLASH THEN << cur >> \o SplitFrom(Tail(s), <<>>, maxsplit - 1)
    ELSE SplitFrom(Tail(s), Append(cur, Head(s)), maxsplit)

\* str.split('/')
Split(s) == SplitFrom(s, <<>>, -1)

\* str.split('/', n)
SplitMax(s, n) == SplitFrom(s, <<>>, n)

\* needle in hay
Contains(hay, needle) ==
    \E i \in 1..(Len(hay) - Len(needle) + 1) :
        SubSeq(hay, i, i + Len(needle) - 1) = needle

Last(seq) == seq[Len(seq)]

----------------------------------------------------------------------------
(* Configuration held by GraphOperations.__init__                          *)

\* self.entrypoint_url: "h://s/a"
entrypoint_url == <<"h", ":", "/", "/", "s", "/", "a">>

\* self.complete_vocabulary_url.doc_url: "h://s/a/v#", as in the sample
\* documentation ("http://localhost:8080/api/vocab#")
doc_url == <<"h", ":", "/", "/", "s", "/", "a", "/", "v", "#">>

\* self.vocabulary (api_doc.doc_name): "v"
vocabulary == <<"v">>

\* the text that replaces the entrypoint URL in a URL
EntryPoint == <<"E", "n", "t", "r", "y", "P", "o", "i", "n", "t">>

\* class names ('@type' values and class endpoints): Drone, State, and a
\* type the documentation does not know
D == <<"D">>
S == <<"S">>
Z == <<"Z">>

\* a collection endpoint name (DroneCollection)
K == <<"K">>

\* api_doc.parsed_classes: class name -> id_ of the class and the IRIs of
\* its supportedProperty entries (Drone has a State, as in the sample doc)
parsed_classes ==
    [c \in {D, S} |->
        IF c = D
        THEN [id_ |-> "vocab#D", supportedProperty |-> <<"vocab#S", "schema:name", "schema:model">>]
        ELSE [id_ |-> "vocab#S", supportedProperty |-> <<"schema:speed">>]]

\* initial_graph.class_endpoints and initial_graph.collection_endpoints
class_endpoints == {D, S}
collection_endpoints == {K}

----------------------------------------------------------------------------
(* The graph store behind GraphUtils                                       *)

\* str(list) as it is written into a collection property, and eval() of it
PyRepr(list) == [repr |-> list]
PyEval(text) == text.repr

\* the two forms of collection id the handlers build
DocUrlId(endpoint) == doc_url \o EntryPoint \o <<SLASH>> \o endpoint
VocabId(entrypoint, endpoint) == vocabulary \o <<":">> \o entrypoint \o <<SLASH>> \o endpoint

\* a collection node without instances and members, as the initial graph holds it
NewCollection(id) ==
    [id |-> id, has_instances |-> FALSE, instances |-> PyRepr(<<>>),
     has_members |-> FALSE, members |-> PyRepr(<<>>)]

\* what a read that matches no node returns: a result without any property
NoResult == NewCollection(<<>>)

\* GraphUtils.read used as a property map (findOne): the first node whose id matches
FindOne(g, id) ==
    LET hits == {i \in 1..Len(g.coll) : g.coll[i].id = id}
    IN  IF hits = {} THEN NoResult
        ELSE g.coll[CHOOSE i \in hits : \A j \in hits : i <= j]

\* GraphUtils.update: assign instances on every node whose id matches
UpdateInstances(g, id, text) ==
    [g EXCEPT !.coll =
        [i \in 1..Len(g.coll) |->
            IF g.coll[i].id = id
            THEN [g.coll[i] EXCEPT !.has_instances = TRUE, !.instances = text]
            ELSE g.coll[i]]]

\* GraphUtils.update: assign members on every node whose id matches
UpdateMembers(g, id, text) ==
    [g EXCEPT !.coll =
        [i \in 1..Len(g.coll) |->
            IF g.coll[i].id = id
            THEN [g.coll[i] EXCEPT !.has_members = TRUE, !.members = text]
            ELSE g.coll[i]]]

\* the smallest node number no stored or pending node carries
FreshNid(g) ==
    LET used == {g.nodes[i].nid : i \in 1..Len(g.nodes)}
                \cup {g.pending[i].nid : i \in 1..Len(g.pending)}
    IN  CHOOSE n \in 1..(Cardinality(used) + 1) : n \notin used

\* GraphUtils.add_node: a new node, whether or not the id is already stored;
\* it is part of the graph after flush
AddNode(g, type, id, props) ==
    [g EXCEPT !.pending =
        Append(g.pending, [nid |-> FreshNid(g), type |-> type, id |-> id, props |-> props])]

\* GraphUtils.flush: commit the added nodes
Flush(g) == [g EXCEPT !.nodes = g.nodes \o g.pending, !.pending = <<>>]

\* the nodes are removed, their edges are left in the graph
DeleteNode_NoCascade(g, id) ==
    LET KeepNode(n) == n.id # id
    IN  [g EXCEPT !.nodes = SelectSeq(g.nodes, KeepNode)]

\* GraphUtils.delete: remove every node whose id matches, with its edges
DeleteNode(g, id) ==
    LET gone == {g.nodes[i].nid : i \in {j \in 1..Len(g.nodes) : g.nodes[j].id = id}}
        KeepNode(n) == n.id # id
        KeepEdge(e) == e.dst \notin gone /\ e.src_nid \notin gone
    IN  [g EXCEPT !.nodes = SelectSeq(g.nodes, KeepNode),
                  !.edges = SelectSeq(g.edges, KeepEdge)]

\* the class anchor nodes of the initial graph (label "classes"), by their type
Anchors == {D, S}

\* the edges from every source in srcs to every node number in dsts, in order
RECURSIVE EdgesTo(_, _, _)
EdgesTo(src, dsts, rel) ==
    IF dsts = <<>> THEN <<>>
    ELSE << [src_label |-> src.label, src_type |-> src.type, src_nid |-> src.nid,
             dst |-> Head(dsts), rel |-> rel] >> \o EdgesTo(src, Tail(dsts), rel)

RECURSIVE EdgesFrom(_, _, _)
EdgesFrom(srcs, dsts, rel) ==
    IF srcs = <<>> THEN <<>>
    ELSE EdgesTo(Head(srcs), dsts, rel) \o EdgesFrom(Tail(srcs), dsts, rel)

\* the node numbers, in store order, of the committed nodes of a type with an id
NidsOf(g, type, id) ==
    LET Hit(n) == n.type = type /\ n.id = id
        hits == SelectSeq(g.nodes, Hit)
    IN  [i \in 1..Len(hits) |-> hits[i].nid]

\* GraphUtils.create_relation from a class anchor (label "classes", matched by
\* type) to the nodes "objects"+dst_type with id dst_id; the result carries
\* the number of edges created
CreateRelationFromClass(g, where_type, rel, dst_type, dst_id) ==
    LET srcs == IF where_type \in Anchors
                THEN << [label |-> "classes", type |-> where_type, nid |-> 0] >>
                ELSE <<>>
        new  == EdgesFrom(srcs, NidsOf(g, dst_type, dst_id), rel)
    IN  [g |-> [g EXCEPT !.edges = g.edges \o new], count |-> Len(new)]

\* GraphUtils.create_relation from the nodes "objects"+src_type with id src_id
CreateRelationFromObject(g, src_type, src_id, rel, dst_type, dst_id) ==
    LET nids == NidsOf(g, src_type, src_id)
        srcs == [i \in 1..Len(nids) |->
                    [label |-> "objects", type |-> src_type, nid |-> nids[i]]]
        new  == EdgesFrom(srcs, NidsOf(g, dst_type, dst_id), rel)
    IN  [g |-> [g EXCEPT !.edges = g.edges \o new], count |-> Len(new)]

\* the property map a read returns for a resource node
RecordOf(n) == [id |-> n.id, type |-> n.type, props |-> n.props]

\* GraphUtils.read used as a list (findAll) with where id='...': any label
FindAllById(g, id) ==
    LET Hit(n) == n.id = id
        hits == SelectSeq(g.nodes, Hit)
    IN  [i \in 1..Len(hits) |-> RecordOf(hits[i])]

\* GraphUtils.read used as a list (findAll) on label "objects"+type with a
\* conjunction of p.key='text' conditions (an empty conjunction keeps all)
FindAllByType(g, type, conds) ==
    LET Hit(n) == /\ n.type = type
                  /\ \A i \in 1..Len(conds) :
                        /\ conds[i].key \in DOMAIN n.props
                        /\ n.props[conds[i].key] = conds[i].text
        hits == SelectSeq(g.nodes, Hit)
    IN  [i \in 1..Len(hits) |-> RecordOf(hits[i])]

----------------------------------------------------------------------------
(* Python values and results                                               *)

\* a str or an int held by a resource dict
PyS(text) == [t |-> "str", s |-> text, n |-> 0]
PyI(num) == [t |-> "int", s |-> "", n |-> num]

\* str(value): a str is itself, an int is its decimal text
PyStr(v) == IF v.t = "str" THEN v.s ELSE ToString(v.n)

\* how a call ends: its graph, the exception it raised ("none" if it
\* returned) and what it returned
Returned(g, ret) == [g |-> g, raised |-> "none", ret |-> ret]
Raised(g, exc) == [g |-> g, raised |-> exc, ret |-> [kind |-> "raise"]]

RetNone == [kind |-> "None"]
RetList(list) == [kind |-> "list", list |-> list]
RetMap(map) == [kind |-> "map", map |-> map]
RetStr(text) == [kind |-> "str", text |-> text]

----------------------------------------------------------------------------
(* GraphOperations                                                         *)

\* the url_list of get_processing and the url parts of delete_processing
UrlList(url) == Split(Replace(RStrip(url), entrypoint_url, EntryPoint))

\* '/' + url.split('/', 3)[-1]
ObjectId(url) == <<SLASH>> \o Last(SplitMax(url, 3))

\* only the values that are str already are kept as they are; any other
\* value is stored as the empty text
Stringified_StrOnly(resource) ==
    [k \in DOMAIN resource.props \cup (IF resource.has_members THEN {"members"} ELSE {}) |->
        IF k \in DOMAIN resource.props THEN resource.props[k].s
        ELSE ""]

\* for key, value in resource.items(): a value that is no str becomes str(value)
\* (the list under 'members', when the dict has one, becomes its text too)
Stringified(resource) ==
    [k \in DOMAIN resource.props \cup (IF resource.has_members THEN {"members"} ELSE {}) |->
        IF k \in DOMAIN resource.props THEN PyStr(resource.props[k])
        ELSE ToString(resource.members)]

\* a descriptor for every supported property
RECURSIVE EmbeddedResources_All(_, _, _)
EmbeddedResources_All(supported, parent_id, parent_type) ==
    IF supported = <<>> THEN <<>>
    ELSE << [parent_id |-> parent_id, parent_type |-> parent_type,
             embedded_url |-> Head(supported)] >>
         \o EmbeddedResources_All(Tail(supported), parent_id, parent_type)

\* the descriptors of the supported properties that are class IRIs
RECURSIVE EmbeddedResources(_, _, _)
EmbeddedResources(supported, parent_id, parent_type) ==
    LET class_uris == {parsed_classes[c].id_ : c \in DOMAIN parsed_classes}
    IN  IF supported = <<>> THEN <<>>
        ELSE (IF Head(supported) \in class_uris
              THEN << [parent_id |-> parent_id, parent_type |-> parent_type,
                       embedded_url |-> Head(supported)] >>
              ELSE <<>>)
             \o EmbeddedResources(Tail(supported), parent_id, parent_type)

\* the reference is put in front of the list
AppendInstance_Prepend(class_instances, resource) ==
    << [id |-> resource.id, type |-> resource.type] >> \o class_instances

\* class_instances.append({'@id': resource['@id'], '@type': resource['@type']})
AppendInstance(class_instances, resource) ==
    Append(class_instances, [id |-> resource.id, type |-> resource.type])

\* a create_relation that made no edge is an error
Absorbed_Strict(count) == IF count = 0 THEN "StoreError" ELSE "none"

\* the response of create_relation (the number of edges made) is not
\* assigned and not looked at: whatever it is, the handler goes on
Absorbed(count) == "none"

\* the list is written into the members as well
WriteInstances_AsMembers(g, id, class_instances) ==
    UpdateMembers(UpdateInstances(g, id, PyRepr(class_instances)), id,
                  PyRepr(class_instances))

\* graph_utils.update(..., set="instances = ..."): the list is written back
\* into the instances of the collection node, and into nothing else
WriteInstances(g, id, class_instances) ==
    UpdateInstances(g, id, PyRepr(class_instances))

\* get_processing, first case: a GET of a resource
GetMember(g, url_list, resource) ==
    LET resource_endpoint == url_list[5]
        redis_resource_parent_id == DocUrlId(resource_endpoint)
        read == FindOne(g, redis_resource_parent_id)
        class_instances == IF ~read.has_instances THEN <<>> ELSE PyEval(read.instances)
        appended == AppendInstance(class_instances, resource)
        g1 == WriteInstances(g, redis_resource_parent_id, appended)
        g2 == AddNode(g1, resource.type, resource.id, Stringified(resource))
        g3 == Flush(g2)
        made == CreateRelationFromClass(g3, resource_endpoint, resource.type,
                                        resource.type, resource.id)
        g4 == made.g
    IN  IF ~resource.has_id \/ ~resource.has_type THEN Raised(g, "KeyError")
        ELSE IF Absorbed(made.count) # "none" THEN Raised(g4, Absorbed(made.count))
        ELSE IF resource.type \notin DOMAIN parsed_classes THEN Raised(g4, "KeyError")
        ELSE Returned(g4, RetList(EmbeddedResources(
                 parsed_classes[resource.type].supportedProperty,
                 resource.id, resource.type)))

\* the fetched members are written into the instances of the node
GetCollection_Instances(g, url_list, resource) ==
    LET redis_collection_id == VocabId(url_list[1], url_list[2])
    IN  IF ~resource.has_members THEN Raised(g, "KeyError")
        ELSE Returned(UpdateInstances(g, redis_collection_id, PyRepr(resource.members)),
                      RetList(<<>>))

\* the fetched members are put behind the members the node holds
GetCollection_Extend(g, url_list, resource) ==
    LET redis_collection_id == VocabId(url_list[1], url_list[2])
        read == FindOne(g, redis_collection_id)
        held == IF ~read.has_members THEN <<>> ELSE PyEval(read.members)
    IN  IF ~resource.has_members THEN Raised(g, "KeyError")
        ELSE Returned(UpdateMembers(g, redis_collection_id,
                                    PyRepr(held \o resource.members)),
                      RetList(<<>>))

\* get_processing, second case: a GET of a collection
GetCollection(g, url_list, resource) ==
    LET redis_collection_id == VocabId(url_list[1], url_list[2])
    IN  IF ~resource.has_members THEN Raised(g, "KeyError")
        ELSE Returned(UpdateMembers(g, redis_collection_id, PyRepr(resource.members)),
                      RetList(<<>>))

\* the third case returns the empty descriptor list
GetOther_EmptyList(g) == Returned(g, RetList(<<>>))

\* get_processing, third case: a GET that is not compatible with the graph
GetOther(g) == Returned(g, RetNone)

get_processing(g, url, resource) ==
    LET url_list == UrlList(url)
    IN  IF Len(url_list) = 6 THEN GetMember(g, url_list, resource)
        ELSE IF Len(url_list) = 2 THEN GetCollection(g, url_list, resource)
        ELSE GetOther(g)

\* new_object["@id"] = '/' + url_list[-1]
WithId(url, object) == [object EXCEPT !.has_id = TRUE, !.id = ObjectId(url)]

\* the object is passed on as it came
put_processing_NoInject(g, url, new_object) == get_processing(g, url, new_object)

put_processing(g, url, new_object) == get_processing(g, url, WithId(url, new_object))

RemoveFirst(list, x) ==
    LET i == CHOOSE k \in 1..Len(list) : list[k] = x /\ \A j \in 1..(k - 1) : list[j] # x
    IN  SubSeq(list, 1, i - 1) \o SubSeq(list, i + 1, Len(list))

\* the body of the loop for the member at a position of the list:
\* if resource_id in member['@id']: collection_members.remove(member);
\* remove() drops the first equal element
LoopBody(list, pos, resource_id) ==
    IF Contains(list[pos].id, resource_id) THEN RemoveFirst(list, list[pos])
    ELSE list

RECURSIVE RemoveLoop(_, _, _)
\* for member in collection_members: ... -- the loop reads position after
\* position of the list it removes from, until the position is past its end
RemoveLoop(list, pos, resource_id) ==
    IF pos > Len(list) THEN list
    ELSE RemoveLoop(LoopBody(list, pos, resource_id), pos + 1, resource_id)

\* the references to the deleted id are taken out of the instances of every
\* collection node as well
delete_processing_Unlist(g, url) ==
    LET object_id == ObjectId(url)
        g1 == DeleteNode(g, object_id)
        parts == UrlList(url)
        redis_collection_id == VocabId(parts[1], parts[2])
        read == FindOne(g1, redis_collection_id)
        collection_members == IF ~read.has_members THEN <<>> ELSE PyEval(read.members)
        kept == RemoveLoop(collection_members, 1, parts[3])
        Other(m) == m.id # object_id
        g2 == [g1 EXCEPT !.coll =
                 [i \in 1..Len(g1.coll) |->
                     [g1.coll[i] EXCEPT !.instances =
                         PyRepr(SelectSeq(PyEval(g1.coll[i].instances), Other))]]]
    IN  IF Len(parts) # 3 THEN Raised(g2, "ValueError")
        ELSE Returned(UpdateMembers(g2, redis_collection_id, PyRepr(kept)), RetNone)

delete_processing(g, url) ==
    LET object_id == ObjectId(url)
        g1 == DeleteNode(g, object_id)
        parts == UrlList(url)
        redis_collection_id == VocabId(parts[1], parts[2])
        read == FindOne(g1, redis_collection_id)
        collection_members == IF ~read.has_members THEN <<>> ELSE PyEval(read.members)
        kept == RemoveLoop(collection_members, 1, parts[3])
    IN  IF Len(parts) # 3 THEN Raised(g1, "ValueError")
        ELSE Returned(UpdateMembers(g1, redis_collection_id, PyRepr(kept)), RetNone)

post_processing(g, url, updated_object) ==
    LET deleted == delete_processing(g, url)
    IN  IF deleted.raised # "none" THEN deleted
        ELSE get_processing(deleted.g, url, WithId(url, updated_object))

\* only the first entry of filters becomes a condition
WhereFilter_FirstOnly(filters) ==
    [i \in 1..(IF Len(filters) > 1 THEN 1 ELSE Len(filters)) |->
        [key |-> filters[i].key, text |-> PyStr(filters[i].value)]]

\* where_filter of get_resource: one p.key='value' condition for each entry
\* of filters, in the order of the dict, joined by AND
WhereFilter(filters) ==
    [i \in 1..Len(filters) |-> [key |-> filters[i].key, text |-> PyStr(filters[i].value)]]

\* a call with neither a URL nor a type is reported as a miss
ConfigError_Miss(g) == Returned(g, RetNone)

\* raise Exception("ERR: You should set at least url OR resource_type")
ConfigError(g) == Raised(g, "Exception")

\* the lookup of a collection drops what the cache holds: the resource
\* nodes and their edges
CollectionMiss_Invalidate(g, url_list) ==
    Returned([g EXCEPT !.nodes = <<>>, !.edges = <<>>], RetNone)

\* the URL of a collection is looked up like the URL of a member and the list
\* that was read is returned
CollectionMiss_Read(g, url_list) ==
    Returned(g, RetList(FindAllById(g, <<SLASH>> \o Last(url_list))))

\* "When checking for collections we will always fetch the server": return None
CollectionMiss(g, url_list) == Returned(g, RetNone)

\* get_resource(url, initial_graph, resource_type, filters); an argument that
\* is not given is None: has_url, has_graph and has_type say which are given
get_resource(g, has_url, url, has_graph, has_type, resource_type, filters) ==
    LET url_set  == has_url /\ url # <<>>
        type_set == has_type /\ resource_type # <<>>
        url_list == Split(RStrip(url))
        n        == Len(url_list)
        resource == FindAllById(g, <<SLASH>> \o url_list[n])
    IN  IF ~url_set /\ ~type_set THEN ConfigError(g)
        ELSE IF url_set
        THEN IF ~has_graph THEN Raised(g, "AttributeError")
             ELSE IF url_list[n] \in collection_endpoints THEN CollectionMiss(g, url_list)
             ELSE IF n < 2 THEN Raised(g, "IndexError")
             ELSE IF url_list[n - 1] \in collection_endpoints THEN CollectionMiss(g, url_list)
             ELSE IF url_list[n - 1] \in class_endpoints /\ Len(resource) = 1
                  THEN Returned(g, RetMap(resource[1]))
             ELSE Returned(g, RetNone)
        ELSE Returned(g, RetList(FindAllByType(g, resource_type, WhereFilter(filters))))

\* link_resources: get_resource is called with the URL alone
link_resources(g, parent_id, parent_type, node_url) ==
    LET looked == get_resource(g, TRUE, node_url, FALSE, FALSE, <<>>, <<>>)
        resource == looked.ret.map
        made == CreateRelationFromObject(g, parent_type, parent_id, resource.type,
                                         resource.type, resource.id)
    IN  IF looked.raised # "none" THEN looked
        ELSE IF looked.ret.kind = "None" THEN Returned(g, RetStr("cannot be fetched"))
        ELSE Returned(made.g, RetStr(ToString(made.count)))

----------------------------------------------------------------------------
(* Bounds and inputs                                                       *)

\* the most resource nodes the store holds
MaxNodes == 2

\* the longest instances list of a collection node
MaxInstances == 2

\* the longest member list of a fetched collection
MaxMembers == 2

\* "h://t/a/D/1": six segments, the entrypoint URL is not part of it
uM == <<"h", ":", "/", "/", "t", "/", "a", "/", "D", "/", "1">>

\* "h://s/a/D/1": below the entrypoint URL, three segments after the replace
uD == entrypoint_url \o <<SLASH>> \o D \o <<SLASH, "1">>

\* "h://s/a/D": two segments after the replace
uC == entrypoint_url \o <<SLASH>> \o D

\* "h://s/a/K": the URL of a collection endpoint
uK == entrypoint_url \o <<SLASH>> \o K

Urls == {uM, uD, uC}

\* ids of resources as the server writes them
id1 == <<SLASH, "a", SLASH, "D", SLASH, "1">>
id12 == id1 \o <<"2">>
id2 == <<SLASH, "a", SLASH, "D", SLASH, "2">>
idShort == <<SLASH, "1">>

Resource(id, type, props) ==
    [has_id |-> TRUE, id |-> id, has_type |-> TRUE, type |-> type, props |-> props,
     has_members |-> FALSE, members |-> <<>>]

R1 == Resource(id1, D, [name |-> PyS("X1"), model |-> PyS("A")])
R2 == Resource(idShort, D, [name |-> PyS("X2"), speed |-> PyI(5)])
RZ == Resource(id1, Z, [name |-> PyS("X1")])

MemberPayloads == {R1, R2, RZ}

\* the member references of a collection response
MemberRefs == {[id |-> i, type |-> D] : i \in {id1, id12, id2}}

MemberLists == UNION {[1..n -> MemberRefs] : n \in 0..MaxMembers}

CollectionPayload(members) ==
    [has_id |-> TRUE, id |-> <<SLASH, "a", SLASH, "D">>, has_type |-> TRUE,
     type |-> <<"C", "o", "l">>, props |-> <<>>, has_members |-> TRUE, members |-> members]

\* the payloads a caller passes with a URL: a resource with any URL, a
\* collection response with the URL of the collection
PayloadsFor(url) ==
    MemberPayloads \cup
    (IF Len(UrlList(url)) = 2 THEN {CollectionPayload(m) : m \in MemberLists} ELSE {})

\* filters of a lookup by type, in dict order
FilterSets ==
    { <<>>,
      << [key |-> "name", value |-> PyS("X2")] >>,
      << [key |-> "speed", value |-> PyI(5)] >>,
      << [key |-> "name", value |-> PyS("X1")], [key |-> "model", value |-> PyS("A")] >>,
      << [key |-> "name", value |-> PyS("X2")], [key |-> "model", value |-> PyS("A")] >> }

NoObject == Resource(<<>>, <<>>, <<>>)
NoArgs == [has_url |-> FALSE, has_graph |-> FALSE, has_type |-> FALSE,
           resource_type |-> <<>>, filters |-> <<>>, parent_id |-> <<>>,
           parent_type |-> <<>>]

Graph == [coll |-> coll, nodes |-> nodes, pending |-> pending, edges |-> edges]

WithinBounds(g) ==
    /\ Len(g.nodes) <= MaxNodes
    /\ \A i \in 1..Len(g.coll) : Len(PyEval(g.coll[i].instances)) <= MaxInstances

\* no call is recorded: the caller has taken the result of the last one
Idle == [op |-> "idle", url |-> <<>>, obj |-> NoObject, args |-> NoArgs,
         pre |-> [coll |-> <<>>, nodes |-> <<>>, pending |-> <<>>, edges |-> <<>>],
         raised |-> "none", ret |-> RetNone]

\* a call is made and ends: the store holds its writes, last holds the call,
\* the graph it started from (pre) and how it ended
Ends(op, url, obj, args, result) ==
    /\ last.op = "idle"
    /\ \E res \in {result} :
        /\ WithinBounds(res.g)
        /\ coll' = res.g.coll
        /\ nodes' = res.g.nodes
        /\ pending' = res.g.pending
        /\ edges' = res.g.edges
        /\ last' = [op |-> op, url |-> url, obj |-> obj, args |-> args, pre |-> Graph,
                    raised |-> res.raised, ret |-> res.ret]
        /\ UNCHANGED procs

----------------------------------------------------------------------------
(* The state machine                                                       *)

\* the initial graph: a collection node for each endpoint, with the id in
\* one of the two forms, and no resource node
Init ==
    /\ \E form \in {"doc_url", "vocabulary"} :
          coll = [i \in 1..2 |->
                    LET endpoint == IF i = 1 THEN D ELSE K
                    IN  NewCollection(IF form = "doc_url" THEN DocUrlId(endpoint)
                                      ELSE VocabId(EntryPoint, endpoint))]
    /\ nodes = <<>>
    /\ pending = <<>>
    /\ edges = <<>>
    /\ last = Idle
    /\ procs = <<>>

\* the caller takes the result of the call
TakeResult ==
    /\ last.op # "idle"
    /\ last' = Idle
    /\ UNCHANGED <<coll, nodes, pending, edges, procs>>

GetProcessing ==
    \E url \in Urls : \E resource \in PayloadsFor(url) :
        Ends("get_processing", url, resource, NoArgs, get_processing(Graph, url, resource))

\* a create-sync is made with a resource, not with a collection response
PutProcessing ==
    \E url \in Urls : \E new_object \in MemberPayloads :
        Ends("put_processing", url, new_object, NoArgs, put_processing(Graph, url, new_object))

\* a replace-sync is made with a resource, not with a collection response
PostProcessing ==
    \E url \in Urls : \E updated_object \in MemberPayloads :
        Ends("post_processing", url, updated_object, NoArgs,
             post_processing(Graph, url, updated_object))

DeleteProcessing ==
    \E url \in Urls :
        Ends("delete_processing", url, NoObject, NoArgs, delete_processing(Graph, url))

\* a lookup by URL (with the initial graph, as the agent calls it)
GetResourceByUrl ==
    \E url \in Urls \cup {uK} :
        Ends("get_resource", url, NoObject,
             [NoArgs EXCEPT !.has_url = TRUE, !.has_graph = TRUE],
             get_resource(Graph, TRUE, url, TRUE, FALSE, <<>>, <<>>))

\* a lookup by type and filters
GetResourceByType ==
    \E resource_type \in {D, S} : \E filters \in FilterSets :
        Ends("get_resource", <<>>, NoObject,
             [NoArgs EXCEPT !.has_type = TRUE, !.resource_type = resource_type,
                            !.filters = filters],
             get_resource(Graph, FALSE, <<>>, FALSE, TRUE, resource_type, filters))

\* a lookup with neither a URL nor a type
GetResourceNoArgs ==
    Ends("get_resource", <<>>, NoObject, NoArgs,
         get_resource(Graph, FALSE, <<>>, FALSE, FALSE, <<>>, <<>>))

\* the resolution of a descriptor of a stored node
LinkResources ==
    \E i \in 1..Len(nodes) : \E node_url \in {uM, uK} :
        Ends("link_resources", node_url, NoObject,
             [NoArgs EXCEPT !.has_url = TRUE, !.parent_id = nodes[i].id,
                            !.parent_type = nodes[i].type],
             link_resources(Graph, nodes[i].id, nodes[i].type, node_url))

Next ==
    \/ GetProcessing
    \/ PutProcessing
    \/ PostProcessing
    \/ DeleteProcessing
    \/ GetResourceByUrl
    \/ GetResourceByType
    \/ GetResourceNoArgs
    \/ LinkResources
    \/ TakeResult

Spec == Init /\ [][Next]_vars

----------------------------------------------------------------------------
(* Properties                                                              *)

\* the URL shapes the handlers tell apart
IsMemberUrl(url) == Len(UrlList(url)) = 6
IsCollectionUrl(url) == Len(UrlList(url)) = 2
IsDeleteUrl(url) == Len(UrlList(url)) = 3

\* the lookup by URL, as the agent calls it
Lookup(g, url) == get_resource(g, TRUE, url, TRUE, FALSE, <<>>, <<>>)

\* the property map of the node a sync of resource stores
StoredMap(resource) ==
    [id |-> resource.id, type |-> resource.type, props |-> Stringified(resource)]

\* some node of the graph g was stored by a member sync of a resource of Payloads
HoldsSynced(g, resource) ==
    \E i \in 1..Len(g.nodes) : RecordOf(g.nodes[i]) = StoredMap(resource)

\* the lists a collection node holds (no property reads as the empty list)
InstancesOf(c) == IF c.has_instances THEN PyEval(c.instances) ELSE <<>>
MembersOf(c) == IF c.has_members THEN PyEval(c.members) ELSE <<>>

IdsIn(list) == {list[i].id : i \in 1..Len(list)}

\* a member read-sync that stored its resource has ended
MemberReadSynced ==
    /\ last.op = "get_processing"
    /\ IsMemberUrl(last.url)
    /\ last.raised = "none"

\* C1: after a read-sync of a member resource at a member URL, the lookup by
\* that URL returns the property map of the resource: its id, its type and
\* its properties as they were synced.
C1_RoundTrip ==
    MemberReadSynced =>
        LET found == Lookup(Graph, last.url)
        IN  /\ found.raised = "none"
            /\ found.ret.kind = "map"
            /\ found.ret.map = StoredMap(last.obj)

\* C1, the case where the server's id is the last segment of the URL
C1_Witness ==
    /\ MemberReadSynced
    /\ Lookup(Graph, last.url).ret.kind = "map"
    /\ Lookup(Graph, last.url).ret.map = StoredMap(last.obj)

\* C2: after a read-sync of a member at a URL and a replace-sync of a new
\* object at the same URL, the lookup by that URL returns the properties of
\* the new object and no property that only the old object had.
C2_ReplaceOverwrites ==
    ( /\ last.op = "post_processing"
      /\ IsMemberUrl(last.url)
      /\ \E old \in MemberPayloads : HoldsSynced(last.pre, old) )
    =>  LET found == Lookup(Graph, last.url)
        IN  /\ found.ret.kind = "map"
            /\ found.ret.map.props = Stringified(last.obj)

\* the members a delete-sync of the id must leave: every entry with another id, in order
ExactlyWithout(list, id) ==
    LET Other(m) == m.id # id
    IN  SelectSeq(list, Other)

\* C3: delete-sync writes the members list back with exactly the entries
\* whose id equals the id of the deleted resource removed and all other
\* entries kept in their order; an entry whose id only contains the deleted
\* id (/a/D/12 for /a/D/1) is kept.
C3_DeleteExactMember ==
    ( /\ last.op = "delete_processing"
      /\ last.raised = "none" )
    =>  \A i \in 1..Len(coll) :
            coll[i].id = VocabId(UrlList(last.url)[1], UrlList(last.url)[2])
            => MembersOf(coll[i])
                 = ExactlyWithout(MembersOf(last.pre.coll[i]), ObjectId(last.url))

\* C3, a case where the code does leave the right list
C3_Witness ==
    /\ last.op = "delete_processing"
    /\ last.raised = "none"
    /\ \E i \in 1..Len(coll) :
          /\ ObjectId(last.url) \in IdsIn(MembersOf(last.pre.coll[i]))
          /\ MembersOf(coll[i]) # <<>>
          /\ MembersOf(coll[i])
               = ExactlyWithout(MembersOf(last.pre.coll[i]), ObjectId(last.url))

\* the id was never synced: no node carries it, no list refers to it
NeverSynced(g, id) ==
    /\ \A i \in 1..Len(g.nodes) : g.nodes[i].id # id
    /\ \A i \in 1..Len(g.coll) :
          id \notin IdsIn(InstancesOf(g.coll[i])) \cup IdsIn(MembersOf(g.coll[i]))

\* C4: delete-sync for a member URL whose id was never synced raises no
\* error, removes no node and leaves the instances and the members of every
\* collection node as they were, whatever the collection holds.
C4_DeleteIdempotent ==
    ( /\ last.op = "delete_processing"
      /\ IsDeleteUrl(last.url)
      /\ NeverSynced(last.pre, ObjectId(last.url)) )
    =>  /\ last.raised = "none"
        /\ nodes = last.pre.nodes
        /\ \A i \in 1..Len(coll) :
              /\ InstancesOf(coll[i]) = InstancesOf(last.pre.coll[i])
              /\ MembersOf(coll[i]) = MembersOf(last.pre.coll[i])

LinkCalled == last.op = "link_resources"

\* C6: link resolution for a reference that is not in the cache returns the
\* not-found outcome as a value, creates no edge and does not raise.
C6_UnresolvableLink ==
    ( /\ LinkCalled
      /\ Lookup(last.pre, last.url).ret.kind = "None" )
    =>  /\ last.raised = "none"
        /\ last.ret = RetStr("cannot be fetched")
        /\ edges = last.pre.edges

\* C7: when the referenced resource is in the cache, link resolution creates
\* an edge from the parent's node (matched by id and type) to the node of
\* the referenced resource (matched by its id), labelled with the "has"
\* relation of the referenced resource's class, and returns the count.
C7_LinkCreatesEdge ==
    ( /\ LinkCalled
      /\ Lookup(last.pre, last.url).ret.kind = "map" )
    =>  LET ref == Lookup(last.pre, last.url).ret.map
        IN  /\ last.raised = "none"
            /\ Len(edges) > Len(last.pre.edges)
            /\ \A k \in (Len(last.pre.edges) + 1)..Len(edges) :
                  /\ edges[k].src_label = "objects"
                  /\ edges[k].src_type = last.args.parent_type
                  /\ \E i \in 1..Len(nodes) :
                        /\ nodes[i].nid = edges[k].src_nid
                        /\ nodes[i].id = last.args.parent_id
                  /\ \E i \in 1..Len(nodes) :
                        /\ nodes[i].nid = edges[k].dst
                        /\ nodes[i].id = ref.id
                  /\ edges[k].rel = ref.type
            /\ last.ret = RetStr(ToString(Len(edges) - Len(last.pre.edges)))

\* the nodes of a type whose properties meet every entry of the filters
Matching(g, type, filters) ==
    LET Hit(n) == /\ n.type = type
                  /\ \A i \in 1..Len(filters) :
                        /\ filters[i].key \in DOMAIN n.props
                        /\ n.props[filters[i].key] = PyStr(filters[i].value)
        hits == SelectSeq(g.nodes, Hit)
    IN  [i \in 1..Len(hits) |-> RecordOf(hits[i])]

TypeLookupCalled == last.op = "get_resource" /\ last.args.has_type /\ ~last.args.has_url

\* C8: the lookup by type and filters returns exactly the nodes of the type
\* whose value for every filtered property equals the given value; an empty
\* filter returns all nodes of the type; no match returns an empty sequence,
\* not an error.
C8_FilteredTypeLookup ==
    TypeLookupCalled
    =>  /\ last.raised = "none"
        /\ last.ret = RetList(Matching(Graph, last.args.resource_type, last.args.filters))
        /\ nodes = last.pre.nodes

\* C8, two filter entries keep one of two nodes of the type
C8_Witness ==
    /\ TypeLookupCalled
    /\ Len(last.args.filters) = 2
    /\ last.ret.kind = "list"
    /\ Len(last.ret.list) = 1
    /\ Cardinality({i \in 1..Len(nodes) : nodes[i].type = last.args.resource_type}) = 2

\* C9: after a member read-sync or a create-sync at a URL has stored a node,
\* delete-sync of that URL leaves no node with the id of that resource.
C9_DeleteRemovesNode ==
    ( /\ last.op = "delete_processing"
      /\ IsMemberUrl(last.url) )
    =>  \A r \in MemberPayloads :
            /\ HoldsSynced(last.pre, r)
                 => \A i \in 1..Len(nodes) : nodes[i].id # r.id
            /\ HoldsSynced(last.pre, WithId(last.url, r))
                 => \A i \in 1..Len(nodes) : nodes[i].id # ObjectId(last.url)

\* C9, the case of a node stored under the id delete-sync derives
C9_Witness ==
    /\ last.op = "delete_processing"
    /\ IsMemberUrl(last.url)
    /\ \E i \in 1..Len(last.pre.nodes) : last.pre.nodes[i].id = ObjectId(last.url)
    /\ \A i \in 1..Len(nodes) : nodes[i].id # ObjectId(last.url)

\* a read-sync or a create-sync of a URL of no supported shape has ended
UnsupportedSynced ==
    /\ last.op \in {"get_processing", "put_processing"}
    /\ ~IsMemberUrl(last.url)
    /\ ~IsCollectionUrl(last.url)

\* C10: for a URL that is neither member-shaped nor collection-shaped,
\* get_processing and put_processing change no node, edge or collection
\* property and return the not-applicable signal, which is not the empty
\* descriptor list.
C10_UnsupportedShape ==
    UnsupportedSynced
    =>  /\ last.raised = "none"
        /\ last.ret.kind = "None"
        /\ last.ret # RetList(<<>>)
        /\ Graph = last.pre

\* C10, on a graph that holds nodes, edges and collection properties
C10_Witness ==
    /\ UnsupportedSynced
    /\ last.op = "put_processing"
    /\ last.ret.kind = "None"
    /\ nodes # <<>>
    /\ edges # <<>>
    /\ \E i \in 1..Len(coll) : coll[i].has_instances

\* C11: for a URL that is not member-shaped (a collection URL, say)
\* delete_processing and post_processing change nothing in the graph and do
\* not raise.
C11_UnsupportedDelete ==
    ( /\ last.op \in {"delete_processing", "post_processing"}
      /\ ~IsMemberUrl(last.url)
      /\ ~IsDeleteUrl(last.url) )
    =>  /\ last.raised = "none"
        /\ Graph = last.pre

\* a read-sync of a collection response at a collection URL has ended
CollectionReadSynced ==
    /\ last.op = "get_processing"
    /\ IsCollectionUrl(last.url)
    /\ last.obj.has_members

\* C12: a read-sync of a collection sets the members of the collection node
\* it addresses to exactly the member list of the response, whatever the
\* node held, returns the empty descriptor list, and leaves the instances of
\* every collection node, every other collection node, the resource nodes
\* and the edges as they were.
C12_CollectionOverwrite ==
    CollectionReadSynced
    =>  /\ last.raised = "none"
        /\ last.ret = RetList(<<>>)
        /\ nodes = last.pre.nodes
        /\ edges = last.pre.edges
        /\ Len(coll) = Len(last.pre.coll)
        /\ \A i \in 1..Len(coll) :
              IF coll[i].id = VocabId(UrlList(last.url)[1], UrlList(last.url)[2])
              THEN /\ coll[i].has_members
                   /\ MembersOf(coll[i]) = last.obj.members
                   /\ coll[i].has_instances = last.pre.coll[i].has_instances
                   /\ coll[i].instances = last.pre.coll[i].instances
              ELSE coll[i] = last.pre.coll[i]

\* C12, other members replace the members the node held, beside nodes and edges
C12_Witness ==
    /\ CollectionReadSynced
    /\ nodes # <<>>
    /\ edges # <<>>
    /\ \E i \in 1..Len(coll) :
          /\ Len(MembersOf(last.pre.coll[i])) = 2
          /\ Len(last.obj.members) = 1
          /\ last.obj.members[1] # MembersOf(last.pre.coll[i])[1]
          /\ MembersOf(coll[i]) = last.obj.members

\* a lookup by URL, with the initial graph, has ended
UrlLookupCalled == last.op = "get_resource" /\ last.args.has_url /\ last.args.has_graph

\* C13: the lookup by the URL of a collection reports a miss (None) in every
\* state of the cache, also when a read-sync of the collection has stored
\* its members, and changes nothing.
C13_CollectionLookupMisses ==
    ( /\ UrlLookupCalled
      /\ IsCollectionUrl(last.url) )
    =>  /\ last.raised = "none"
        /\ last.ret.kind = "None"
        /\ Graph = last.pre

\* C13, the collection has been synced and its members are in the cache
C13_Witness ==
    /\ UrlLookupCalled
    /\ IsCollectionUrl(last.url)
    /\ last.ret.kind = "None"
    /\ nodes # <<>>
    /\ \E i \in 1..Len(coll) :
          /\ coll[i].id = VocabId(UrlList(last.url)[1], UrlList(last.url)[2])
          /\ MembersOf(coll[i]) # <<>>

\* a lookup without a URL and without a type (None or empty) has ended
UnconfiguredLookupCalled ==
    /\ last.op = "get_resource"
    /\ ~(last.args.has_url /\ last.url # <<>>)
    /\ ~(last.args.has_type /\ last.args.resource_type # <<>>)

\* C14: get_resource with neither a URL nor a type raises the configuration
\* error; it is no miss and no empty result, and the graph is as it was.
C14_ConfigurationError ==
    UnconfiguredLookupCalled
    =>  /\ last.raised = "Exception"
        /\ last.ret.kind = "raise"
        /\ Graph = last.pre

\* C14, raised on a cache that holds nodes
C14_Witness ==
    /\ UnconfiguredLookupCalled
    /\ last.raised = "Exception"
    /\ nodes # <<>>

LookupId(url) == <<SLASH>> \o Last(Split(RStrip(url)))

\* a lookup by the URL of a member of a class endpoint has ended
MemberLookupCalled ==
    /\ UrlLookupCalled
    /\ Len(Split(RStrip(last.url))) >= 2
    /\ Split(RStrip(last.url))[Len(Split(RStrip(last.url))) - 1] \in class_endpoints
    /\ Last(Split(RStrip(last.url))) \notin collection_endpoints

\* C17: the lookup by a member URL returns the property map of a node with
\* the id it reads with whenever the cache holds such a node, and reports a
\* miss only when it holds none; also after the member was read-synced twice.
C17_LookupFindsNode ==
    MemberLookupCalled
    =>  /\ last.raised = "none"
        /\ IF \E i \in 1..Len(nodes) : nodes[i].id = LookupId(last.url)
           THEN /\ last.ret.kind = "map"
                /\ \E i \in 1..Len(nodes) :
                      /\ nodes[i].id = LookupId(last.url)
                      /\ last.ret.map = RecordOf(nodes[i])
           ELSE last.ret.kind = "None"

\* C17, the cache holds one node with the id and the lookup returns its map
C17_Witness ==
    /\ MemberLookupCalled
    /\ last.ret.kind = "map"
    /\ last.ret.map.id = LookupId(last.url)
    /\ Cardinality({i \in 1..Len(nodes) : nodes[i].id = LookupId(last.url)}) = 1

----------------------------------------------------------------------------
(* The handlers step by step: two calls in flight                          *)
(* Every call of graph_utils is one step (the store serves one command at  *)
(* a time), and so is every iteration of the loop of delete_processing;    *)
(* what a handler holds between two steps is local to the call.            *)

\* how a call ends, and how it moves on to its next store call
Done(p, raised, ret) == [p EXCEPT !.pc = "done", !.raised = raised, !.ret = ret]
At(p, pc) == [p EXCEPT !.pc = pc]

\* the call p has issued a store call: it is put at the end of its log
Issued(p, call) == [p EXCEPT !.log = Append(@, call)]

\* create_relation is called before the node is added and committed
AfterCall_EdgeFirst(pc) ==
    IF pc = "update_instances" THEN "create_relation"
    ELSE IF pc = "create_relation" THEN "add_node"
    ELSE IF pc = "add_node" THEN "flush"
    ELSE "return"

\* the store call that follows a store call of the member case, in the
\* order of the statements: update, add_node, flush, create_relation, and
\* then the descriptors are built and returned
AfterCall(pc) ==
    IF pc = "update_instances" THEN "add_node"
    ELSE IF pc = "add_node" THEN "flush"
    ELSE IF pc = "flush" THEN "create_relation"
    ELSE "return"

\* the dict get_processing works on: put_processing and post_processing set '@id' first
SyncedObject(p) ==
    IF p.op = "get_processing" THEN p.obj
    ELSE [p.obj EXCEPT !.has_id = TRUE, !.id = p.object_id]

\* get_processing up to its first change of the store: the read of the
\* instances (first case), the update of the members (second case)
GetStart(g, p) ==
    LET url_list == p.url_list
        resource == SyncedObject(p)
        read == FindOne(g, DocUrlId(url_list[5]))
        ended == IF Len(url_list) = 2 THEN GetCollection(g, url_list, resource)
                 ELSE GetOther(g)
    IN  IF Len(url_list) = 6
        THEN IF ~resource.has_id \/ ~resource.has_type
             THEN [g |-> g, p |-> Done(Issued(p, "read_instances"), "KeyError",
                                       [kind |-> "raise"])]
             ELSE [g |-> g,
                   p |-> [Issued(p, "read_instances")
                            EXCEPT !.pc = "update_instances",
                                   !.loc = IF ~read.has_instances THEN <<>>
                                           ELSE PyEval(read.instances)]]
        ELSE [g |-> ended.g,
              p |-> Done(IF Len(url_list) = 2 /\ ended.raised = "none"
                         THEN Issued(p, "update_members") ELSE p,
                         ended.raised, ended.ret)]

\* get_processing, first case, after the read: one store call in each step
\* (update, add_node, flush, create_relation); the descriptors are built
\* after the last
GetStep(g, p) ==
    LET url_list == p.url_list
        resource == SyncedObject(p)
        made == CreateRelationFromClass(g, url_list[5], resource.type,
                                        resource.type, resource.id)
        after == IF p.pc = "update_instances"
                 THEN WriteInstances(g, DocUrlId(url_list[5]),
                                     AppendInstance(p.loc, resource))
                 ELSE IF p.pc = "add_node"
                 THEN AddNode(g, resource.type, resource.id, Stringified(resource))
                 ELSE IF p.pc = "flush" THEN Flush(g)
                 ELSE made.g
        q == Issued(p, p.pc)
    IN  [g |-> after,
         p |-> IF p.pc = "create_relation" /\ Absorbed(made.count) # "none"
               THEN Done(q, Absorbed(made.count), [kind |-> "raise"])
               ELSE IF AfterCall(p.pc) # "return" THEN At(q, AfterCall(p.pc))
               ELSE IF resource.type \notin DOMAIN parsed_classes
               THEN Done(q, "KeyError", [kind |-> "raise"])
               ELSE Done(q, "none", RetList(EmbeddedResources(
                        parsed_classes[resource.type].supportedProperty,
                        resource.id, resource.type)))]

\* the iterator goes on to the next position only when the body has
\* removed an element
LoopStep_Stay(p, resource_id) ==
    LET kept == LoopBody(p.loc, p.pos, resource_id)
    IN  [p EXCEPT !.loc = kept, !.pos = IF kept = p.loc THEN @ ELSE @ + 1]

\* one iteration of the for loop of delete_processing: the body for the
\* member at the position of the iterator, and the iterator one further
LoopStep(p, resource_id) ==
    [p EXCEPT !.loc = LoopBody(p.loc, p.pos, resource_id), !.pos = @ + 1]

\* delete_processing: delete and the unpacking of the URL, the read of the
\* members, the iterations of the loop, the update; post_processing goes on
\* with get_processing
DeleteStep(g, p) ==
    LET parts == p.url_list
        redis_collection_id == VocabId(parts[1], parts[2])
        read == FindOne(g, redis_collection_id)
        collection_members == IF ~read.has_members THEN <<>> ELSE PyEval(read.members)
        looped == LoopStep(p, parts[3])
    IN  IF p.pc = "start"
        THEN [g |-> DeleteNode(g, p.object_id),
              p |-> IF Len(parts) # 3
                    THEN Done(Issued(p, "delete"), "ValueError", [kind |-> "raise"])
                    ELSE At(Issued(p, "delete"), "read_members")]
        ELSE IF p.pc = "read_members"
        THEN [g |-> g,
              p |-> [Issued(p, "read_members")
                       EXCEPT !.pc = IF collection_members = <<>> THEN "update_members"
                                     ELSE "remove_loop",
                              !.loc = collection_members,
                              !.pos = 1]]
        ELSE IF p.pc = "remove_loop"
        THEN [g |-> g,
              p |-> At(looped, IF looped.pos > Len(looped.loc) THEN "update_members"
                               ELSE "remove_loop")]
        ELSE [g |-> UpdateMembers(g, redis_collection_id, PyRepr(p.loc)),
              p |-> IF p.op = "post_processing"
                    THEN At(Issued(p, "update_members"), "get_processing")
                    ELSE Done(Issued(p, "update_members"), "none", RetNone)]

\* link_resources: get_resource with the URL alone, then create_relation
LinkStep(g, p) ==
    LET looked == get_resource(g, TRUE, p.url, FALSE, FALSE, <<>>, <<>>)
        resource == p.loc[1]
        made == CreateRelationFromObject(g, p.parent_type, p.parent_id, resource.type,
                                         resource.type, resource.id)
    IN  IF p.pc = "start"
        THEN IF looked.raised # "none"
             THEN [g |-> g, p |-> Done(p, looked.raised, looked.ret)]
             ELSE IF looked.ret.kind = "None"
             THEN [g |-> g, p |-> Done(p, "none", RetStr("cannot be fetched"))]
             ELSE [g |-> g, p |-> [Issued(p, "read") EXCEPT !.pc = "create_relation",
                                                           !.loc = << looked.ret.map >>]]
        ELSE [g |-> made.g,
              p |-> Done(Issued(p, "create_relation"), "none",
                         RetStr(ToString(made.count)))]

\* the next step of the call p on the graph g
StepOf(g, p) ==
    IF p.op = "link_resources" THEN LinkStep(g, p)
    ELSE IF p.pc = "get_processing" THEN GetStart(g, p)
    ELSE IF p.pc \in {"update_instances", "add_node", "flush", "create_relation"}
    THEN GetStep(g, p)
    ELSE IF p.op \in {"delete_processing", "post_processing"} THEN DeleteStep(g, p)
    ELSE GetStart(g, p)

\* "h://t/a/D/2" and "h://t/a/S/2": member URLs of a second Drone and of a State
uM2 == <<"h", ":", "/", "/", "t", "/", "a", "/", "D", "/", "2">>
uS == <<"h", ":", "/", "/", "t", "/", "a", "/", "S", "/", "2">>

RB == Resource(id2, D, [name |-> PyS("X2")])
RS == Resource(<<SLASH, "a", SLASH, "S", SLASH, "2">>, S, [speed |-> PyI(5)])

\* "h://t/a/K/1": a member URL below the collection endpoint, which is the
\* type of no class anchor, and the Drone the server holds there
uKM == <<"h", ":", "/", "/", "t", "/", "a", "/">> \o K \o <<"/", "1">>
RK == Resource(<<SLASH, "a", SLASH>> \o K \o <<SLASH, "1">>, D, [name |-> PyS("X3")])

Call(op, url, obj) ==
    [op |-> op, url |-> url, obj |-> obj, parent_id |-> <<>>, parent_type |-> <<>>]

LinkCall(parent, node_url) ==
    [op |-> "link_resources", url |-> node_url, obj |-> NoObject,
     parent_id |-> parent.id, parent_type |-> parent.type]

\* the initial graph with the collection ids in one form
InitialGraph(form) ==
    [coll |-> [i \in 1..2 |->
                 LET endpoint == IF i = 1 THEN D ELSE K
                 IN  NewCollection(IF form = "doc_url" THEN DocUrlId(endpoint)
                                   ELSE VocabId(EntryPoint, endpoint))],
     nodes |-> <<>>, pending |-> <<>>, edges |-> <<>>]

\* a call as one piece, as Spec takes it
Atomic(g, call) ==
    IF call.op = "get_processing" THEN get_processing(g, call.url, call.obj)
    ELSE IF call.op = "put_processing" THEN put_processing(g, call.url, call.obj)
    ELSE IF call.op = "post_processing" THEN post_processing(g, call.url, call.obj)
    ELSE IF call.op = "delete_processing" THEN delete_processing(g, call.url)
    ELSE link_resources(g, call.parent_id, call.parent_type, call.url)

\* the graph after one call and then the other
Serial(g, first, second) == Atomic(Atomic(g, first).g, second).g

\* two read-syncs of members, on the initial graph
ReadPairs ==
    LET ReadSyncs == {Call("get_processing", uM, R1), Call("get_processing", uM2, RB),
                      Call("get_processing", uS, RS), Call("get_processing", uKM, RK)}
    IN  {[g0 |-> InitialGraph(form), calls |-> <<a, b>>, locks |-> FALSE] :
            form \in {"doc_url", "vocabulary"}, a \in ReadSyncs, b \in ReadSyncs}

\* the graphs a read-sync of the collection and a read-sync of the member
\* "/a/D/1" leave (either may not have happened)
SyncedGraphs ==
    LET Fetched(g) == {g} \cup {get_processing(g, uC, CollectionPayload(m)).g : m \in MemberLists}
        Stored(g) == {g, get_processing(g, uM, R1).g}
    IN  UNION {UNION {Stored(f) : f \in Fetched(InitialGraph(form))} :
                  form \in {"doc_url", "vocabulary"}}

\* a replace-sync and a delete-sync of one URL, with or without the lock of its id
ReplaceDeletePairs ==
    {[g0 |-> g, calls |-> << Call("post_processing", u, o),
                             Call("delete_processing", u, NoObject) >>, locks |-> l] :
        g \in SyncedGraphs, u \in {uD, uM}, o \in {R1, RB}, l \in BOOLEAN}

\* the resolution of two descriptors, on a graph that holds both parents
LinkPairs ==
    LET LinkCalls == {LinkCall(parent, node_url) : parent \in {R1, R2}, node_url \in {uM, uK}}
        pairs == {ab \in LinkCalls \X LinkCalls : ab[1] # ab[2]}
    IN  {[g0 |-> get_processing(get_processing(InitialGraph(form), uM, R1).g, uM, R2).g,
          calls |-> ab, locks |-> FALSE] :
            form \in {"doc_url", "vocabulary"}, ab \in pairs}

\* "h://s/a/D/2": the URL delete_processing accepts for a second Drone
uD2 == entrypoint_url \o <<SLASH>> \o D \o <<SLASH, "2">>

\* a delete-sync with a read-sync of the collection or with a delete-sync
\* of another member, on a graph whose collection was fetched with the two
\* members "/a/D/1" and "/a/D/2"
DeleteMembersPairs ==
    LET ref(id) == [id |-> id, type |-> D]
        fetched == << ref(id1), ref(id2) >>
        Others == {Call("delete_processing", uD2, NoObject)}
                  \cup {Call("get_processing", uC, CollectionPayload(m)) :
                           m \in {<<>>, << ref(id2) >>, << ref(id2), ref(id1) >>}}
    IN  {[g0 |-> get_processing(InitialGraph(form), uC, CollectionPayload(fetched)).g,
          calls |-> << Call("delete_processing", uD, NoObject), other >>,
          locks |-> FALSE] :
            form \in {"doc_url", "vocabulary"}, other \in Others}

NewProc(call, locks) ==
    [op |-> call.op, url |-> call.url, obj |-> call.obj, parent_id |-> call.parent_id,
     parent_type |-> call.parent_type, locks |-> locks, url_list |-> UrlList(call.url),
     object_id |-> ObjectId(call.url), pc |-> "start", loc |-> <<>>,
     pos |-> 1, log |-> <<>>, raised |-> "none", ret |-> RetNone]

\* two calls are made on a graph the calls before them have left
InitSteps ==
    \E sc \in ReadPairs \cup ReplaceDeletePairs \cup LinkPairs \cup DeleteMembersPairs :
        /\ coll = sc.g0.coll
        /\ nodes = sc.g0.nodes
        /\ pending = sc.g0.pending
        /\ edges = sc.g0.edges
        /\ last = [Idle EXCEPT !.op = "concurrent", !.pre = sc.g0]
        /\ procs = [i \in 1..2 |-> NewProc(sc.calls[i], sc.locks)]

\* the caller of p holds the lock of the resource id of p
HoldsLock(p) == p.locks /\ p.pc \notin {"start", "done"}

\* p has a step to take; under the lock discipline a call starts only when
\* no call on the same resource id is under way
MayStep(i) ==
    /\ procs[i].pc # "done"
    /\ (procs[i].locks /\ procs[i].pc = "start")
         => \A j \in DOMAIN procs \ {i} :
               ~(HoldsLock(procs[j]) /\ procs[j].object_id = procs[i].object_id)

\* one call takes its next step
HandlerStep ==
    \E i \in DOMAIN procs :
        /\ MayStep(i)
        /\ \E res \in {StepOf(Graph, procs[i])} :
            /\ WithinBounds(res.g)
            /\ coll' = res.g.coll
            /\ nodes' = res.g.nodes
            /\ pending' = res.g.pending
            /\ edges' = res.g.edges
            /\ procs' = [procs EXCEPT ![i] = res.p]
            /\ UNCHANGED last

SpecSteps == InitSteps /\ [][HandlerStep]_vars

\* every caller runs on: a call that has a step to take takes it
FairSteps == SpecSteps /\ WF_vars(HandlerStep)

\* both calls have ended
AllDone == procs # <<>> /\ \A i \in DOMAIN procs : procs[i].pc = "done"

\* the call that was made, without what the call has done since
CallOf(p) ==
    [op |-> p.op, url |-> p.url, obj |-> p.obj, parent_id |-> p.parent_id,
     parent_type |-> p.parent_type]

\* the graphs the two serial orders of the calls end in
SerialResults ==
    {Serial(last.pre, CallOf(procs[1]), CallOf(procs[2])),
     Serial(last.pre, CallOf(procs[2]), CallOf(procs[1]))}

\* the call i was a read-sync of a member and has returned
MemberReadDone(i) ==
    /\ procs[i].pc = "done"
    /\ procs[i].op = "get_processing"
    /\ IsMemberUrl(procs[i].url)
    /\ procs[i].raised = "none"

\* C16: a member read-sync returns exactly one descriptor for each supported
\* property of the resource's class that is a documented class, and none for
\* any other property; each descriptor has the id of the synced resource as
\* parent id, its type as parent type and the IRI of the property; the list
\* is empty when the class has no such property.
C16_EmbeddedDiscovery ==
    \A i \in DOMAIN procs :
        MemberReadDone(i)
        =>  LET resource == procs[i].obj
                supported == parsed_classes[resource.type].supportedProperty
                documented == {parsed_classes[c].id_ : c \in DOMAIN parsed_classes}
                embedded == {k \in 1..Len(supported) : supported[k] \in documented}
                list == procs[i].ret.list
            IN  /\ procs[i].ret.kind = "list"
                /\ Len(list) = Cardinality(embedded)
                /\ \A k \in embedded :
                      Cardinality({j \in 1..Len(list) :
                                      list[j].embedded_url = supported[k]}) = 1
                /\ \A j \in 1..Len(list) :
                      /\ list[j].parent_id = resource.id
                      /\ list[j].parent_type = resource.type
                      /\ \E k \in embedded : list[j].embedded_url = supported[k]

\* C16, a Drone (one of its three properties is the class State) and a
\* State (no property is a class) have been synced
C16_Witness ==
    /\ AllDone
    /\ MemberReadDone(1) /\ MemberReadDone(2)
    /\ procs[1].obj.type = D /\ Len(procs[1].ret.list) = 1
    /\ procs[1].ret.list[1].embedded_url = "vocab#S"
    /\ procs[2].obj.type = S /\ procs[2].ret.list = <<>>

\* two read-syncs of different resources at member URLs of one endpoint have returned
TwoMembersSynced ==
    /\ AllDone
    /\ MemberReadDone(1) /\ MemberReadDone(2)
    /\ UrlList(procs[1].url)[5] = UrlList(procs[2].url)[5]
    /\ procs[1].obj.id # procs[2].obj.id

\* C18: after two concurrent member read-syncs of two different resources of
\* one collection, in any interleaving of their steps, the instances of the
\* collection node hold the references of both resources, two more than
\* before, as after a serial execution.
C18_NoLostUpdate ==
    TwoMembersSynced
    =>  \A i \in 1..Len(coll) :
            coll[i].id = DocUrlId(UrlList(procs[1].url)[5])
            =>  /\ \A k \in 1..2 :
                      \E j \in 1..Len(InstancesOf(coll[i])) :
                          InstancesOf(coll[i])[j]
                            = [id |-> procs[k].obj.id, type |-> procs[k].obj.type]
                /\ Len(InstancesOf(coll[i])) = Len(InstancesOf(last.pre.coll[i])) + 2

\* C18, an interleaving that keeps both references
C18_Witness ==
    /\ TwoMembersSynced
    /\ \E i \in 1..Len(coll) :
          /\ coll[i].id = DocUrlId(UrlList(procs[1].url)[5])
          /\ Len(InstancesOf(coll[i])) = 2
          /\ InstancesOf(coll[i])[1] # InstancesOf(coll[i])[2]

\* a replace-sync and a delete-sync of one URL have both ended
ReplaceDeleteRan ==
    /\ AllDone
    /\ procs[1].op = "post_processing"
    /\ procs[2].op = "delete_processing"
    /\ procs[1].url = procs[2].url

LinksRan ==
    /\ AllDone
    /\ procs[1].op = "link_resources"
    /\ procs[2].op = "link_resources"

\* the edge the resolution of the descriptor of call i has to create is
\* among the edges created since the calls were made
OwnEdge(i) ==
    LET ref == Lookup(last.pre, procs[i].url).ret.map
    IN  \E k \in (Len(last.pre.edges) + 1)..Len(edges) :
            /\ edges[k].src_label = "objects"
            /\ edges[k].src_type = procs[i].parent_type
            /\ edges[k].rel = ref.type
            /\ \E n \in 1..Len(nodes) :
                  nodes[n].nid = edges[k].src_nid /\ nodes[n].id = procs[i].parent_id
            /\ \E n \in 1..Len(nodes) :
                  nodes[n].nid = edges[k].dst /\ nodes[n].id = ref.id

----------------------------------------------------------------------------
(* Invariants of the cache                                                 *)

\* the resource nodes of the graph g that carry the id
NodesWithId(g, id) == {i \in 1..Len(g.nodes) : g.nodes[i].id = id}

\* the resource the last sync worked on: create-sync and replace-sync set
\* its id from the URL first
LastSynced == IF last.op = "get_processing" THEN last.obj ELSE WithId(last.url, last.obj)

\* a member sync (read, create or replace) that stored its resource has ended
MemberSynced ==
    /\ last.op \in {"get_processing", "put_processing", "post_processing"}
    /\ IsMemberUrl(last.url)
    /\ last.raised = "none"

\* C21: whatever syncs were made, no two resource nodes of the cache have
\* the same id, also when the same member URL was synced more than once.
C21_IdUnique ==
    \A i \in 1..Len(nodes) : \A j \in 1..Len(nodes) :
        i # j => nodes[i].id # nodes[j].id

\* C21, the case of the claim: a member is synced whose id a node of the
\* cache carries already
C21_Witness ==
    /\ MemberSynced
    /\ NodesWithId(last.pre, LastSynced.id) # {}

\* the membership edges (from a class anchor) that end in the node numbered nid
MembershipEdges(g, nid) ==
    {k \in 1..Len(g.edges) : g.edges[k].src_label = "classes" /\ g.edges[k].dst = nid}

\* C22: a resource node stored by a member sync that ended without an error
\* (every node of a documented class is one) has exactly one membership edge
\* from a class anchor, after that sync and after every later sync that
\* does not delete it.
C22_OneMembershipEdge ==
    \A i \in 1..Len(nodes) :
        nodes[i].type \in DOMAIN parsed_classes
        => Cardinality(MembershipEdges(Graph, nodes[i].nid)) = 1

\* C22, a case where it holds: a node that had its edge keeps exactly that
\* edge over a later member sync of another resource
C22_Witness ==
    /\ MemberSynced
    /\ Len(last.pre.nodes) = 1
    /\ Len(nodes) = 2
    /\ nodes[1].id # nodes[2].id
    /\ \A i \in 1..2 : Cardinality(MembershipEdges(Graph, nodes[i].nid)) = 1

\* a replace-sync at a member URL whose resource a read-sync has stored
ReplacedAfterRead ==
    /\ last.op = "post_processing"
    /\ IsMemberUrl(last.url)
    /\ Cardinality(NodesWithId(last.pre, ObjectId(last.url))) = 1
    /\ \E i \in 1..Len(last.pre.coll) :
          /\ last.pre.coll[i].id = DocUrlId(UrlList(last.url)[5])
          /\ ObjectId(last.url) \in IdsIn(InstancesOf(last.pre.coll[i]))

\* the references to the id in a list of member references
RefsTo(list, id) == {k \in 1..Len(list) : list[k].id = id}

\* C23: after a read-sync of a member and a replace-sync at the same URL the
\* cache holds exactly one resource node with the id of the resource, and
\* the collection node of the URL holds exactly one reference to it.
C23_ReplaceLeavesOne ==
    ReplacedAfterRead
    =>  /\ Cardinality(NodesWithId(Graph, ObjectId(last.url))) = 1
        /\ \A i \in 1..Len(coll) :
              coll[i].id = DocUrlId(UrlList(last.url)[5])
              => Cardinality(RefsTo(InstancesOf(coll[i]), ObjectId(last.url))) = 1

\* C23, the case of the claim: the replace-sync of a read-synced member ended
C23_Witness ==
    /\ ReplacedAfterRead
    /\ HoldsSynced(last.pre, R1)

\* a member sync (read, create or replace) that got as far as storing a node
MemberStored ==
    /\ last.op \in {"get_processing", "put_processing", "post_processing"}
    /\ IsMemberUrl(last.url)
    /\ LastSynced.has_id /\ LastSynced.has_type
    /\ last.raised \in {"none", "KeyError"}

\* the textual form of a value of a payload: a string as it is, a number in
\* decimal digits
TextOf(v) == IF v.t = "str" THEN v.s ELSE ToString(v.n)

\* C25: every property value of every resource node is a string, and the
\* node a member sync stores has, for every property of the payload, the
\* value itself when it is a string and its textual form when it is not.
C25_TextOnly ==
    /\ \A i \in 1..Len(nodes) : \A k \in DOMAIN nodes[i].props :
          nodes[i].props[k] \in STRING
    /\ MemberStored
       => /\ Len(nodes) = Len(last.pre.nodes) + 1
          /\ DOMAIN Last(nodes).props = DOMAIN last.obj.props
          /\ \A k \in DOMAIN last.obj.props :
                Last(nodes).props[k] = TextOf(last.obj.props[k])

\* C25, a payload with a string and a number: both are stored as text
C25_Witness ==
    /\ MemberStored
    /\ last.obj.props["speed"] = PyI(5)
    /\ Last(nodes).props["speed"] = "5"
    /\ Last(nodes).props["name"] = "X2"

\* the collection node a member sync at the URL reads and writes (line 54)
OwnerOfMember(c, url) == IsMemberUrl(url) /\ c.id = DocUrlId(UrlList(url)[5])

\* C26: a call changes the length of the instances of a collection node only
\* in two ways: it makes the list longer, and is then a read-, create- or
\* replace-sync at a member URL of that collection; or it makes the list
\* shorter, and is then a delete-sync of an id the list referred to. Any
\* other call leaves the instances of every collection node as they were.
C26_InstancesLength ==
    last.op # "idle"
    =>  \A i \in 1..Len(coll) :
            LET before == InstancesOf(last.pre.coll[i])
                after == InstancesOf(coll[i])
            IN  /\ Len(after) > Len(before)
                   => /\ last.op \in {"get_processing", "put_processing", "post_processing"}
                      /\ OwnerOfMember(coll[i], last.url)
                /\ Len(after) < Len(before)
                   => /\ last.op = "delete_processing"
                      /\ ObjectId(last.url) \in IdsIn(before) \ IdsIn(after)
                /\ Len(after) = Len(before) => after = before

\* C26, a create-sync at a member URL: the instances of the collection node
\* of the URL are one longer, those of the other collection node are as
\* they were
C26_Witness ==
    /\ last.op = "put_processing"
    /\ last.raised = "none"
    /\ \E i \in 1..Len(coll) :
          /\ OwnerOfMember(coll[i], last.url)
          /\ Len(InstancesOf(coll[i])) = Len(InstancesOf(last.pre.coll[i])) + 1
    /\ \E i \in 1..Len(coll) :
          /\ ~OwnerOfMember(coll[i], last.url)
          /\ InstancesOf(coll[i]) = InstancesOf(last.pre.coll[i])

\* C27: a read-sync or create-sync at a URL that is not a collection URL
\* leaves the members of every collection node as the last collection
\* read-sync wrote them, and a collection read-sync leaves the instances of
\* every collection node as they were.
C27_MembersIndependent ==
    /\ ( /\ last.op \in {"get_processing", "put_processing"}
         /\ ~IsCollectionUrl(last.url) )
       => \A i \in 1..Len(coll) :
             /\ coll[i].has_members = last.pre.coll[i].has_members
             /\ MembersOf(coll[i]) = MembersOf(last.pre.coll[i])
    /\ ( /\ last.op = "get_processing"
         /\ IsCollectionUrl(last.url) )
       => \A i \in 1..Len(coll) :
             /\ coll[i].has_instances = last.pre.coll[i].has_instances
             /\ InstancesOf(coll[i]) = InstancesOf(last.pre.coll[i])

\* C27, a member sync after a collection read-sync: the node is stored and
\* the fetched member list is still there
C27_Witness ==
    /\ MemberSynced
    /\ Len(nodes) = Len(last.pre.nodes) + 1
    /\ \E i \in 1..Len(coll) :
          /\ Len(MembersOf(coll[i])) = 2
          /\ MembersOf(coll[i]) = MembersOf(last.pre.coll[i])

\* the node numbers of the resource nodes of the graph g
NidsIn(g) == {g.nodes[i].nid : i \in 1..Len(g.nodes)}

\* both ends of the edge are in the graph g: the class anchor or the resource
\* node it starts from, and the resource node it ends in
EndsPresent(g, e) ==
    /\ e.dst \in NidsIn(g)
    /\ e.src_label = "classes" => e.src_type \in Anchors
    /\ e.src_label = "objects" => e.src_nid \in NidsIn(g)

----------------------------------------------------------------------------
(* The store calls of one handler, step by step                            *)

\* the call i is a read-sync at a member URL
MemberRead(i) == procs[i].op = "get_processing" /\ IsMemberUrl(procs[i].url)

\* the store calls of a member read-sync in the order the claim gives them:
\* the read of the instances, their write-back, the node creation, the
\* commit, the creation of the class-anchor edge
MemberOrder ==
    <<"read_instances", "update_instances", "add_node", "flush", "create_relation">>

IsPrefix(s, t) == Len(s) <= Len(t) /\ \A k \in 1..Len(s) : s[k] = t[k]

\* the positions of a store call in the log of a call
Positions(log, call) == {k \in 1..Len(log) : log[k] = call}

\* C24: at every moment of a member read-sync the store calls it has issued
\* are a beginning of: write-back of the instances, node creation, commit,
\* edge creation. So the edge creation is issued after a commit that
\* follows the node creation, no node creation is issued after it, and the
\* node is a committed node of the graph when the edge creation is issued
\* (a node with its id that is not committed is the node of another call).
C24_StepOrder ==
    \A i \in DOMAIN procs :
        MemberRead(i)
        =>  LET log == procs[i].log
            IN  /\ IsPrefix(log, MemberOrder)
                /\ \A e \in Positions(log, "create_relation") :
                      /\ \E f \in Positions(log, "flush") :
                            /\ f < e
                            /\ \E n \in Positions(log, "add_node") : n < f
                      /\ \A n \in Positions(log, "add_node") : n < e
                /\ procs[i].pc = "create_relation"
                   => /\ NodesWithId(Graph, procs[i].obj.id) # {}
                      /\ \A k \in 1..Len(pending) :
                            pending[k].id = procs[i].obj.id
                            => \E j \in DOMAIN procs \ {i} :
                                  /\ procs[j].pc = "flush"
                                  /\ procs[j].obj.id = procs[i].obj.id

\* C24, a member read-sync that has issued all its store calls while the
\* other call was under way
C24_Witness ==
    \E i \in DOMAIN procs :
        /\ MemberRead(i)
        /\ procs[i].pc = "done"
        /\ procs[i].log = MemberOrder
        /\ \E j \in DOMAIN procs : procs[j].pc \notin {"start", "done"}

\* the create_relation of the member read-sync i finds no source: the
\* endpoint of its URL is the type of no class anchor
NoSource(i) == UrlList(procs[i].url)[5] \notin Anchors

\* the write of the instances by the member read-sync i finds no collection
\* node: no node has the id the handler builds
NoCollection(i) ==
    \A c \in 1..Len(coll) : coll[c].id # DocUrlId(UrlList(procs[i].url)[5])

\* the member read-sync i of a resource of a documented class has ended
MemberReadEnded(i) ==
    /\ MemberRead(i)
    /\ procs[i].pc = "done"
    /\ procs[i].obj.has_id /\ procs[i].obj.has_type
    /\ procs[i].obj.type \in DOMAIN parsed_classes

C30_Terminates == <>AllDone

\* C30, a delete-sync that has ended after its loop removed an element of
\* the list it was iterating over
C30_Witness ==
    \E i \in DOMAIN procs :
        /\ procs[i].op = "delete_processing"
        /\ procs[i].pc = "done"
        /\ procs[i].raised = "none"
        /\ procs[i].pos > 1
        /\ \E c \in 1..Len(coll) :
              /\ coll[c].id = VocabId(UrlList(procs[i].url)[1], UrlList(procs[i].url)[2])
              /\ Len(procs[i].loc) < Len(MembersOf(last.pre.coll[c]))

----------------------------------------------------------------------------
(* The handlers against each other                                         *)

\* a delete-sync or a replace-sync at a URL on which a member read-sync
\* creates a resource node
DeleteOnMemberUrl ==
    /\ last.op \in {"delete_processing", "post_processing"}
    /\ IsMemberUrl(last.url)

\* C31: on every URL that a member read-sync takes as the URL of a member,
\* delete-sync takes it as one too: it raises nothing and writes the members
\* of the collection node back; and replace-sync on such a URL comes to its
\* read-sync, returns the descriptors and leaves the node recreated.
C31_HandlersAgree ==
    DeleteOnMemberUrl
    =>  /\ last.raised = "none"
        /\ last.op = "post_processing"
           => /\ last.ret.kind = "list"
              /\ NodesWithId(Graph, ObjectId(last.url)) # {}

\* C31, the case of the claim: a member read-sync stored a node at the URL
\* and a delete-sync or replace-sync at the same URL has ended
C31_Witness ==
    /\ DeleteOnMemberUrl
    /\ NodesWithId(last.pre, ObjectId(last.url)) # {}
    /\ \E i \in 1..Len(last.pre.coll) :
          ObjectId(last.url) \in IdsIn(InstancesOf(last.pre.coll[i]))

\* the collection nodes of the graph that carry the id
CollectionsWithId(id) == {i \in 1..Len(coll) : coll[i].id = id}

\* C32: for the endpoint of a member URL, the collection node whose
\* instances a member read-sync writes (the id of line 54) is the one node
\* whose members a collection read-sync and a delete-sync write (the id of
\* lines 114-116 and 172-174): both ids match the same single node.
C32_OneCollectionNode ==
    MemberReadSynced
    =>  LET endpoint == UrlList(last.url)[5]
        IN  /\ CollectionsWithId(DocUrlId(endpoint))
                 = CollectionsWithId(VocabId(EntryPoint, endpoint))
            /\ Cardinality(CollectionsWithId(DocUrlId(endpoint))) = 1

\* C32, a member read-sync that found its collection node and wrote the
\* instances: the node carries the id of the first form
C32_Witness ==
    /\ MemberReadSynced
    /\ \E i \in CollectionsWithId(DocUrlId(UrlList(last.url)[5])) :
          Len(InstancesOf(coll[i])) = Len(InstancesOf(last.pre.coll[i])) + 1

\* C33: a delete-sync writes the instances of no collection node: after it
\* every collection node has the instances it had before, so a reference
\* that a member read-sync put there is still there when the resource is
\* deleted.
C33_DeleteKeepsInstances ==
    last.op = "delete_processing"
    =>  /\ Len(coll) = Len(last.pre.coll)
        /\ \A i \in 1..Len(coll) :
              /\ coll[i].has_instances = last.pre.coll[i].has_instances
              /\ InstancesOf(coll[i]) = InstancesOf(last.pre.coll[i])

\* C33, a delete-sync of a member that a read-sync had stored: the node is
\* gone, the reference to it is still in the instances
C33_Witness ==
    /\ last.op = "delete_processing"
    /\ last.raised = "none"
    /\ NodesWithId(last.pre, ObjectId(last.url)) # {}
    /\ NodesWithId(Graph, ObjectId(last.url)) = {}
    /\ \E i \in 1..Len(coll) : ObjectId(last.url) \in IdsIn(InstancesOf(coll[i]))

\* a member read-sync has raised because the type of the resource is no
\* documented class
UndocumentedTypeRaised ==
    /\ last.op = "get_processing"
    /\ IsMemberUrl(last.url)
    /\ last.obj.has_id /\ last.obj.has_type
    /\ last.obj.type \notin DOMAIN parsed_classes
    /\ last.raised = "KeyError"

\* a delete-sync has raised because its URL does not split into entrypoint,
\* endpoint and id
UnsplittableDeleteRaised ==
    /\ last.op = "delete_processing"
    /\ ~IsDeleteUrl(last.url)
    /\ last.raised = "ValueError"

\* C34: a member read-sync that raises for an undocumented type and a
\* delete-sync that raises for the shape of its URL leave every collection
\* node, every resource node and every edge as they were before the call.
C34_RaiseLeavesGraph ==
    (UndocumentedTypeRaised \/ UnsplittableDeleteRaised)
    =>  /\ coll = last.pre.coll
        /\ nodes = last.pre.nodes
        /\ edges = last.pre.edges

\* C34, a delete-sync that raised for its URL on a graph that holds the
\* node the URL names
C34_Witness ==
    /\ UnsplittableDeleteRaised
    /\ NodesWithId(last.pre, ObjectId(last.url)) # {}

\* C35: a lookup, by URL or by type and filters, changes nothing: after
\* every call of get_resource -- it may have returned a map, a list or None,
\* or have raised -- every collection node, every resource node and every
\* edge is as it was before the call.
C35_LookupReadOnly ==
    last.op = "get_resource"
    =>  /\ coll = last.pre.coll
        /\ nodes = last.pre.nodes
        /\ edges = last.pre.edges

\* C35, a lookup by URL that found its node in a graph with nodes, edges and
\* instances
C35_Witness ==
    /\ last.op = "get_resource"
    /\ last.ret.kind = "map"
    /\ nodes = last.pre.nodes /\ nodes # <<>>
    /\ edges = last.pre.edges /\ edges # <<>>
    /\ coll = last.pre.coll
    /\ \E i \in 1..Len(coll) : InstancesOf(coll[i]) # <<>>

\* a delete-sync and, on the same collection, a collection read-sync or a
\* second delete-sync have both ended
DeleteMembersRan ==
    /\ AllDone
    /\ procs[1].op = "delete_processing"
    /\ \/ procs[2].op = "get_processing" /\ IsCollectionUrl(procs[2].url)
       \/ procs[2].op = "delete_processing" /\ procs[2].url # procs[1].url

\* the member lists of the collection nodes of a graph, node by node
MembersIn(g) == [c \in 1..Len(g.coll) |-> MembersOf(g.coll[c])]

\* C36: a delete-sync that runs at the same time as a read-sync of its
\* collection, or as a delete-sync of another member of it, loses no update:
\* in every interleaving the members at the end are the members one of the
\* two serial orders of the calls ends with.
C36_NoLostMembers ==
    DeleteMembersRan
    =>  \E g \in SerialResults : MembersIn(Graph) = MembersIn(g)

\* C36, a run of the two calls that ends like one of their serial orders,
\* with the members written and empty
C36_Witness ==
    /\ DeleteMembersRan
    /\ \E c \in 1..Len(coll) : coll[c].has_members /\ MembersOf(coll[c]) = <<>>
    /\ \E g \in SerialResults : MembersIn(Graph) = MembersIn(g)

====
